---- MODULE Spec2Model ----
(***************************************************************************)
(* Task-instance endpoints of the REST API                                 *)
(* (airflow/api_connexion/endpoints/task_instance_endpoint.py).            *)
(*                                                                         *)
(* The persisted rows are the state: the state column of every             *)
(* TaskInstance row, the state column of every DagRun row, the SlaMiss and *)
(* RenderedTaskInstanceFields rows.  Every endpoint is one action; the     *)
(* response it hands back is kept in resp until the HTTP layer has         *)
(* delivered it.                                                           *)
(***************************************************************************)
EXTENDS Integers, Sequences, FiniteSets, TLC

VARIABLES
    ti_state,   \* TaskInstance.state, by task-instance key
    dr_state,   \* DagRun.state, by run key
    sla_miss,   \* keys <<dag_id, task_id, execution_date>> of the SlaMiss rows
    rtif,       \* keys <<dag_id, task_id, execution_date>> of the RTIF rows
    resp        \* the response of the request being served, or NoResponse

vars == <<ti_state, dr_state, sla_miss, rtif, resp>>

(***************************************************************************)
(* Optional values: Python's None is the empty tuple, a present value v    *)
(* is <<v>>.  An optional list is None, Some(<<>>) or Some(<<a, b>>).      *)
(***************************************************************************)
None == <<>>
Some(v) == <<v>>
Val(o) == o[1]

Range(s) == {s[i] : i \in DOMAIN s}

\* State.NONE is Python's None, stored as SQL NULL; it is not the token "none".
StateNONE == "NULL"
DagRunStateQUEUED == "queued"

(***************************************************************************)
(* Bounds of the model.                                                    *)
(***************************************************************************)
\* the logical dates a request may name are 1..MaxDate, and MaxDate + 1 as
\* the anchor of a set-state request (the runs are at 1 and 2)
MaxDate == 2
\* page sizes of the list endpoint are 1..MaxLimit
MaxLimit == 2

(***************************************************************************)
(* The rows.  Columns other than state are never written by the endpoints. *)
(***************************************************************************)
TI_table ==
    << [dag_id |-> "W", task_id |-> "A", run_id |-> "R1", pool |-> "p1",
        queue |-> "q1", start_date |-> 1, end_date |-> 2, duration |-> 1],
       [dag_id |-> "W", task_id |-> "B", run_id |-> "R1", pool |-> "p2",
        queue |-> "q1", start_date |-> 2, end_date |-> 3, duration |-> 1],
       [dag_id |-> "W", task_id |-> "A", run_id |-> "R2", pool |-> "p1",
        queue |-> "q2", start_date |-> 2, end_date |-> 4, duration |-> 2],
       [dag_id |-> "W", task_id |-> "B", run_id |-> "R2", pool |-> "p1",
        queue |-> "q1", start_date |-> 3, end_date |-> 4, duration |-> 1],
       [dag_id |-> "V", task_id |-> "A", run_id |-> "R1", pool |-> "p1",
        queue |-> "q1", start_date |-> 1, end_date |-> 1, duration |-> 0] >>

DR_table ==
    << [dag_id |-> "W", run_id |-> "R1", execution_date |-> 1],
       [dag_id |-> "W", run_id |-> "R2", execution_date |-> 2],
       [dag_id |-> "V", run_id |-> "R1", execution_date |-> 1] >>

TIKey(ti) == <<ti.dag_id, ti.task_id, ti.run_id>>
DRKey(dr) == <<dr.dag_id, dr.run_id>>
TIKeys == {TIKey(TI_table[i]) : i \in DOMAIN TI_table}
DRKeys == {DRKey(DR_table[i]) : i \in DOMAIN DR_table}

\* The workflow catalog: W is known with the graph A -> B -> C (C has no task
\* instance yet); V has rows in the database but is not in the catalog.
dag_bag ==
    [W |-> [task_ids |-> {"A", "B", "C"},
            edges |-> {<<"A", "B">>, <<"B", "C">>}]]

get_dag(dag_id) ==
    IF dag_id \in DOMAIN dag_bag THEN Some(dag_bag[dag_id]) ELSE None

(***************************************************************************)
(* Queries.  session.query(TI).join(TI.dag_run) is the sequence of the     *)
(* <<TI row, DagRun row>> pairs on (dag_id, run_id); a query is the list   *)
(* of the criteria given to filter(), evaluated when it is executed.       *)
(***************************************************************************)
JoinRows ==
    LET n == Len(TI_table)
        m == Len(DR_table)
        pairs == [i \in 1..(n * m) |->
                    [ti |-> TI_table[((i - 1) \div m) + 1],
                     dr |-> DR_table[((i - 1) % m) + 1]]]
        OnRun(p) == p.ti.dag_id = p.dr.dag_id /\ p.ti.run_id = p.dr.run_id
    IN  SelectSeq(pairs, OnRun)

BaseQuery == [criteria |-> <<>>]

filter(query, clause) ==
    [query EXCEPT !.criteria = Append(@, clause)]

\* the value of a column in a joined row; st is the state column as the
\* session sees it
Col(row, key, st) ==
    CASE key = "TI.dag_id" -> row.ti.dag_id
      [] key = "TI.task_id" -> row.ti.task_id
      [] key = "TI.run_id" -> row.ti.run_id
      [] key = "TI.state" -> st[TIKey(row.ti)]
      [] key = "TI.pool" -> row.ti.pool
      [] key = "TI.queue" -> row.ti.queue
      [] key = "TI.start_date" -> row.ti.start_date
      [] key = "TI.end_date" -> row.ti.end_date
      [] key = "TI.duration" -> row.ti.duration
      [] key = "DR.execution_date" -> row.dr.execution_date

\* or_(*cond) with no argument compiles to a blank string, and a blank
\* criterion adds nothing to the WHERE clause: every row passes it.
ClauseHolds(c, row, st) ==
    CASE c.op = "eq" -> Col(row, c.key, st) = c.val
      [] c.op = "ge" -> Col(row, c.key, st) >= c.val
      [] c.op = "le" -> Col(row, c.key, st) <= c.val
      [] c.op = "or" ->
            \/ Len(c.val) = 0
            \/ \E i \in DOMAIN c.val : Col(row, c.key, st) = c.val[i]

RowMatches(query, row, st) ==
    \A i \in DOMAIN query.criteria : ClauseHolds(query.criteria[i], row, st)

\* query.all()
all(query, st) ==
    LET Keep(row) == RowMatches(query, row, st)
    IN  SelectSeq(JoinRows, Keep)

(***************************************************************************)
(* The filter helpers.                                                     *)
(***************************************************************************)
_convert_state(states) ==
    IF states = None \/ Len(Val(states)) = 0
    THEN None
    ELSE Some([i \in DOMAIN Val(states) |->
                 IF Val(states)[i] = "none" THEN StateNONE ELSE Val(states)[i]])

_apply_array_filter(query, key, values) ==
    IF values # None
    THEN filter(query, [op |-> "or", key |-> key, val |-> Val(values)])
    ELSE query

_apply_range_filter(query, key, value_range) ==
    LET gte_value == value_range[1]
        lte_value == value_range[2]
        q1 == IF gte_value # None
              THEN filter(query, [op |-> "ge", key |-> key, val |-> Val(gte_value)])
              ELSE query
    IN  IF lte_value # None
        THEN filter(q1, [op |-> "le", key |-> key, val |-> Val(lte_value)])
        ELSE q1

(***************************************************************************)
(* Responses.  Every response record has the same fields; an endpoint      *)
(* fills the ones it returns.  queries lists the tables the handler has    *)
(* queried, in order.                                                      *)
(***************************************************************************)
NoResponse ==
    [op |-> "idle", req |-> <<>>, status |-> 0, total_entries |-> 0,
     task_instances |-> <<>>, queries |-> <<>>, written |-> 0]

Response(op, req, status) ==
    [NoResponse EXCEPT !.op = op, !.req = req, !.status = status]

(***************************************************************************)
(* The read endpoints.                                                     *)
(***************************************************************************)
SideKey(row) == <<row.ti.dag_id, row.ti.task_id, row.dr.execution_date>>

\* base_query.join(SlaMiss, and_(...), isouter=True).add_entity(SlaMiss)
outerjoin_SlaMiss(rows, sla) ==
    [i \in DOMAIN rows |->
        [ti |-> rows[i].ti, dr |-> rows[i].dr,
         sla_miss |-> IF SideKey(rows[i]) \in sla
                      THEN Some(SideKey(rows[i])) ELSE None]]

\* base_query.outerjoin(RTIF, and_(...)).add_entity(RTIF)
outerjoin_RTIF(rows, rendered) ==
    [i \in DOMAIN rows |->
        [ti |-> rows[i].ti, dr |-> rows[i].dr, sla_miss |-> rows[i].sla_miss,
         rendered_fields |-> IF SideKey(rows[i]) \in rendered
                             THEN Some(SideKey(rows[i])) ELSE None]]

\* query.offset(offset).limit(limit); offset None skips nothing
offset_limit(rows, offset, limit) ==
    LET skip == IF offset = None THEN 0 ELSE Val(offset)
        last == IF skip + limit < Len(rows) THEN skip + limit ELSE Len(rows)
    IN  SubSeq(rows, skip + 1, last)

\* task_instance_collection_schema.dump: the key and the two optional entities
dump_task_instances(rows) ==
    [i \in DOMAIN rows |->
        [key |-> TIKey(rows[i].ti),
         sla_miss |-> rows[i].sla_miss # None,
         rendered_fields |-> rows[i].rendered_fields # None]]

\* lines 159-177: the filtered query of the list endpoint
ListBaseQuery(req) ==
    LET states == _convert_state(req.state)
        q0 == BaseQuery
        q1 == IF req.dag_id # "~"
              THEN filter(q0, [op |-> "eq", key |-> "TI.dag_id", val |-> req.dag_id])
              ELSE q0
        q2 == IF req.dag_run_id # "~"
              THEN filter(q1, [op |-> "eq", key |-> "TI.run_id", val |-> req.dag_run_id])
              ELSE q1
        q3 == _apply_range_filter(q2, "DR.execution_date",
                                  <<req.execution_date_gte, req.execution_date_lte>>)
        q4 == _apply_range_filter(q3, "TI.start_date",
                                  <<req.start_date_gte, req.start_date_lte>>)
        q5 == _apply_range_filter(q4, "TI.end_date",
                                  <<req.end_date_gte, req.end_date_lte>>)
        q6 == _apply_range_filter(q5, "TI.duration",
                                  <<req.duration_gte, req.duration_lte>>)
        q7 == _apply_array_filter(q6, "TI.state", states)
        q8 == _apply_array_filter(q7, "TI.pool", req.pool)
    IN  _apply_array_filter(q8, "TI.queue", req.queue)

\* lines 221-243: the filtered query of the batch endpoint
BatchBaseQuery(data) ==
    LET states == _convert_state(data.state)
        q0 == BaseQuery
        q1 == _apply_array_filter(q0, "TI.dag_id", data.dag_ids)
        q3 == _apply_range_filter(q1, "DR.execution_date",
                                  <<data.execution_date_gte, data.execution_date_lte>>)
        q4 == _apply_range_filter(q3, "TI.start_date",
                                  <<data.start_date_gte, data.start_date_lte>>)
        q5 == _apply_range_filter(q4, "TI.end_date",
                                  <<data.end_date_gte, data.end_date_lte>>)
        q6 == _apply_range_filter(q5, "TI.duration",
                                  <<data.duration_gte, data.duration_lte>>)
        q7 == _apply_array_filter(q6, "TI.state", states)
        q8 == _apply_array_filter(q7, "TI.pool", data.pool)
    IN  _apply_array_filter(q8, "TI.queue", data.queue)

\* total_entries taken after the SlaMiss join, the join being an inner join
total_entries_after_join(base_query, st, sla) ==
    LET Hit(row) == SideKey(row) \in sla
    IN  Len(SelectSeq(all(base_query, st), Hit))

\* base_query.with_entities(func.count('*')).scalar(), before the side joins
total_entries_of(base_query, st, sla) ==
    Len(all(base_query, st))

get_task_instances(req) ==
    LET base_query == ListBaseQuery(req)
        total_entries == total_entries_of(base_query, ti_state, sla_miss)
        joined == outerjoin_RTIF(
                      outerjoin_SlaMiss(all(base_query, ti_state), sla_miss), rtif)
        task_instances == offset_limit(joined, req.offset, req.limit)
    IN  /\ resp' = [Response("get_task_instances", req, 200) EXCEPT
                       !.total_entries = total_entries,
                       !.task_instances = dump_task_instances(task_instances),
                       !.queries = <<"TI", "TI">>]
        /\ UNCHANGED <<ti_state, dr_state, sla_miss, rtif>>

get_task_instances_batch(data) ==
    LET base_query == BatchBaseQuery(data)
        total_entries == total_entries_of(base_query, ti_state, sla_miss)
        task_instances == outerjoin_RTIF(
                      outerjoin_SlaMiss(all(base_query, ti_state), sla_miss), rtif)
    IN  /\ resp' = [Response("get_task_instances_batch", data, 200) EXCEPT
                       !.total_entries = total_entries,
                       !.task_instances = dump_task_instances(task_instances),
                       !.queries = <<"TI", "TI">>]
        /\ UNCHANGED <<ti_state, dr_state, sla_miss, rtif>>

\* the HTTP layer delivers the response; the next request can be served
respond ==
    /\ resp.op # "idle"
    /\ resp' = NoResponse
    /\ UNCHANGED <<ti_state, dr_state, sla_miss, rtif>>

(***************************************************************************)
(* The requests of the read endpoints.                                     *)
(***************************************************************************)
OptDates(S) == {None} \cup {Some(d) : d \in S}

ExecutionDateRanges == OptDates({2}) \X OptDates({1})
StartDateRanges == {<<None, None>>, <<Some(2), None>>}
EndDateRanges == {<<None, None>>, <<None, Some(3)>>}
DurationRanges == {<<None, None>>, <<Some(1), Some(1)>>}
StateFilters == {None, Some(<<>>), Some(<<"none", "failed">>)}
PoolFilters == {None, Some(<<>>), Some(<<"p1">>)}
QueueFilters == {None, Some(<<>>)}
DagIdsFilters == {None, Some(<<>>), Some(<<"W">>), Some(<<"W", "V">>)}

ListRequests ==
    {[dag_id |-> d, dag_run_id |-> r,
      execution_date_gte |-> e[1], execution_date_lte |-> e[2],
      start_date_gte |-> s[1], start_date_lte |-> s[2],
      end_date_gte |-> n[1], end_date_lte |-> n[2],
      duration_gte |-> u[1], duration_lte |-> u[2],
      state |-> st, pool |-> p, queue |-> q, offset |-> o, limit |-> l] :
        d \in {"~", "W"}, r \in {"~", "R1"},
        e \in ExecutionDateRanges, s \in StartDateRanges,
        n \in EndDateRanges, u \in DurationRanges,
        st \in StateFilters, p \in PoolFilters, q \in QueueFilters,
        o \in {None, Some(1)}, l \in 1..MaxLimit}

BatchRequests ==
    {[dag_ids |-> d,
      execution_date_gte |-> e[1], execution_date_lte |-> e[2],
      start_date_gte |-> s[1], start_date_lte |-> s[2],
      end_date_gte |-> n[1], end_date_lte |-> n[2],
      duration_gte |-> u[1], duration_lte |-> u[2],
      state |-> st, pool |-> p, queue |-> q] :
        d \in DagIdsFilters,
        e \in ExecutionDateRanges, s \in StartDateRanges,
        n \in EndDateRanges, u \in DurationRanges,
        st \in StateFilters, p \in PoolFilters, q \in QueueFilters}

(***************************************************************************)
(* The read endpoints over a family of stores.                             *)
(***************************************************************************)
SideKeys == {<<"W", "A", 1>>, <<"W", "B", 2>>}

InitRead ==
    /\ ti_state = [k \in TIKeys |->
                     CASE k = <<"W", "A", "R1">> -> "failed"
                       [] k = <<"W", "B", "R1">> -> "running"
                       [] k = <<"W", "A", "R2">> -> "success"
                       [] OTHER -> StateNONE]
    /\ dr_state = [k \in DRKeys |-> "running"]
    /\ sla_miss \in SUBSET SideKeys
    /\ rtif \in SUBSET SideKeys
    /\ resp = NoResponse

NextRead ==
    \/ /\ resp.op = "idle"
       /\ \E req \in ListRequests : get_task_instances(req)
    \/ /\ resp.op = "idle"
       /\ \E data \in BatchRequests : get_task_instances_batch(data)
    \/ respond

SpecRead == InitRead /\ [][NextRead]_vars

(***************************************************************************)
(* The session.  A handler works on the session's view of the two state    *)
(* columns; a write is [table, key, value].  The storage layer may fail:   *)
(* fault = Some(k) makes it raise once k writes have been made (at the     *)
(* flush when k is the number of writes); None never fails.                *)
(***************************************************************************)
Fails(writes, fault) == fault # None /\ Val(fault) <= Len(writes)

Written(writes, fault) ==
    IF Fails(writes, fault) THEN SubSeq(writes, 1, Val(fault)) ELSE writes

RECURSIVE Apply(_, _)
Apply(st, writes) ==
    IF writes = <<>>
    THEN st
    ELSE LET w == writes[1]
             next == IF w.table = "TI"
                     THEN [st EXCEPT !.ti[w.key] = w.value]
                     ELSE [st EXCEPT !.dr[w.key] = w.value]
         IN  Apply(next, Tail(writes))

Keys(rows) == [i \in DOMAIN rows |-> TIKey(rows[i].ti)]

(***************************************************************************)
(* The workflow's own operations (airflow.models.dag,                      *)
(* airflow.models.taskinstance), after the specification.                  *)
(***************************************************************************)
\* dag.clear(dry_run=True, ...): the query of the instances to clear
dag_clear(dag_id, data) ==
    LET q0 == filter(BaseQuery, [op |-> "eq", key |-> "TI.dag_id", val |-> dag_id])
        q1 == _apply_range_filter(q0, "DR.execution_date",
                                  <<data.start_date, data.end_date>>)
        q2 == IF data.only_failed
              THEN filter(q1, [op |-> "or", key |-> "TI.state",
                               val |-> <<"failed", "upstream_failed">>])
              ELSE q1
    IN  IF data.only_running
        THEN filter(q2, [op |-> "eq", key |-> "TI.state", val |-> "running"])
        ELSE q2

\* clear_task_instances(tis, session, dag, dag_run_state): every instance to
\* the unset state, then every owning run to dag_run_state unless it is False
\* (None here)
clear_task_instances(tis, dag_run_state) ==
    LET ti_writes == [i \in DOMAIN tis |->
                        [table |-> "TI", key |-> TIKey(tis[i].ti), value |-> StateNONE]]
        Owning(dr) == \E i \in DOMAIN tis : DRKey(tis[i].dr) = DRKey(dr)
        drs == SelectSeq(DR_table, Owning)
        dr_writes == [i \in DOMAIN drs |->
                        [table |-> "DR", key |-> DRKey(drs[i]),
                         value |-> Val(dag_run_state)]]
    IN  IF dag_run_state # None THEN ti_writes \o dr_writes ELSE ti_writes

\* the tasks that reach t (up) or that t reaches (down) in the graph
RECURSIVE Reach(_, _, _)
Reach(dag, seen, up) ==
    LET step == {e[IF up THEN 1 ELSE 2] : e \in
                    {e \in dag.edges : e[IF up THEN 2 ELSE 1] \in seen}}
    IN  IF step \subseteq seen THEN seen ELSE Reach(dag, seen \cup step, up)

\* the run the anchor names: by run_id when given, else by execution_date
AnchorRuns(dag_id, run_id, execution_date) ==
    LET Named(dr) ==
            /\ dr.dag_id = dag_id
            /\ IF run_id # None
               THEN dr.run_id = Val(run_id)
               ELSE execution_date # None /\ dr.execution_date = Val(execution_date)
    IN  SelectSeq(DR_table, Named)

\* dag.set_task_instance_state(...): the anchor instance, its ancestors and
\* descendants as asked, over the anchor's run and the later and earlier runs
\* as asked; written when commit
set_task_instance_state_tis(dag_id, dag, task_id, run_id, execution_date, upstream, downstream, future, past) ==
    LET anchor == AnchorRuns(dag_id, run_id, execution_date)[1]
        tasks == {task_id}
                 \cup (IF upstream THEN Reach(dag, {task_id}, TRUE) ELSE {})
                 \cup (IF downstream THEN Reach(dag, {task_id}, FALSE) ELSE {})
        InRuns(dr) ==
            \/ dr.execution_date = anchor.execution_date
            \/ future /\ dr.execution_date >= anchor.execution_date
            \/ past /\ dr.execution_date <= anchor.execution_date
        Resolved(row) ==
            /\ row.ti.dag_id = dag_id
            /\ row.ti.task_id \in tasks
            /\ InRuns(row.dr)
    IN  SelectSeq(JoinRows, Resolved)

set_task_instance_state_writes(tis, state, commit) ==
    IF commit
    THEN [i \in DOMAIN tis |->
            [table |-> "TI", key |-> TIKey(tis[i].ti), value |-> state]]
    ELSE <<>>

(***************************************************************************)
(* @provide_session: the handler runs in one session; the session is       *)
(* committed when the handler returns and rolled back when it raises.      *)
(***************************************************************************)
provide_session(out) ==
    /\ resp' = out.resp
    /\ ti_state' = IF out.raised THEN ti_state ELSE out.st.ti
    /\ dr_state' = IF out.raised THEN dr_state ELSE out.st.dr
    /\ UNCHANGED <<sla_miss, rtif>>

\* a session that commits every write as it is made
autocommit_session(out) ==
    /\ resp' = out.resp
    /\ ti_state' = out.st.ti
    /\ dr_state' = out.st.dr
    /\ UNCHANGED <<sla_miss, rtif>>

Outcome(r, st, raised) == [resp |-> r, st |-> st, raised |-> raised]

NotFound(op, req) == Response(op, req, 404)

(***************************************************************************)
(* POST clearTaskInstances                                                 *)
(***************************************************************************)
\* line 296 negated: the write runs on a dry run
clear_commits_on_dry_run(dry_run) == dry_run

\* line 296: if not dry_run
clear_commits(dry_run) == ~dry_run

\* line 289 never taken
clear_dag_missing_never(dag) == FALSE

\* line 289: if not dag
clear_dag_missing(dag) == dag = None

\* line 301 with the condition dropped
clear_dag_run_state_always(reset_dag_runs) == Some(DagRunStateQUEUED)

\* line 301 with the branches exchanged
clear_dag_run_state_exchanged(reset_dag_runs) ==
    IF reset_dag_runs THEN None ELSE Some(DagRunStateQUEUED)

\* line 301: DagRunState.QUEUED if reset_dag_runs else False
clear_dag_run_state(reset_dag_runs) ==
    IF reset_dag_runs THEN Some(DagRunStateQUEUED) ELSE None

clear_outcome(req, fault, st) ==
    LET op == "post_clear_task_instances"
        dag == get_dag(req.dag_id)
        task_instances == dag_clear(req.dag_id, req)
        writes == IF clear_commits(req.dry_run)
                  THEN clear_task_instances(all(task_instances, st.ti),
                                            clear_dag_run_state(req.reset_dag_runs))
                  ELSE <<>>
        failed == clear_commits(req.dry_run) /\ Fails(writes, fault)
        after == Apply(st, Written(writes, fault))
        queried == IF clear_commits(req.dry_run)
                   THEN IF req.reset_dag_runs /\ writes # <<>>
                        THEN <<"TI", "DR">> ELSE <<"TI">>
                   ELSE <<>>
    IN  IF clear_dag_missing(dag)
        THEN Outcome(NotFound(op, req), st, TRUE)
        ELSE IF failed
        THEN Outcome([Response(op, req, 500) EXCEPT
                         !.queries = queried,
                         !.written = Len(Written(writes, fault))],
                     after, TRUE)
        ELSE Outcome([Response(op, req, 200) EXCEPT
                         !.task_instances = Keys(all(task_instances, after.ti)),
                         !.queries = queried \o <<"TI">>,
                         !.written = Len(writes)],
                     after, FALSE)

post_clear_task_instances_autocommit(req, fault) ==
    autocommit_session(clear_outcome(req, fault, [ti |-> ti_state, dr |-> dr_state]))

post_clear_task_instances(req, fault) ==
    provide_session(clear_outcome(req, fault, [ti |-> ti_state, dr |-> dr_state]))

(***************************************************************************)
(* POST setTaskInstancesState                                              *)
(***************************************************************************)
\* line 367: commit=not data["dry_run"]
set_state_commit(dry_run) == ~dry_run

\* line 363 passing True
set_state_upstream_always(data) == TRUE

\* line 363: upstream=data["include_upstream"]
set_state_upstream(data) == data.include_upstream

\* lines 339-347: the instance of the task on execution_date (TI.execution_date
\* is the execution_date of the instance's run)
ByExecutionDate(dag_id, task_id, execution_date) ==
    LET q == filter(filter(filter(BaseQuery,
                 [op |-> "eq", key |-> "TI.task_id", val |-> task_id]),
                 [op |-> "eq", key |-> "TI.dag_id", val |-> dag_id]),
                 [op |-> "eq", key |-> "DR.execution_date", val |-> execution_date])
    IN  q

\* lines 352-354 looking the run up, not the task's instance in it
get_TI_of_any_task(dag_id, task_id, run_id) ==
    \E k \in TIKeys : k[1] = dag_id /\ k[3] = run_id

\* lines 352-354: session.query(TI).get(primary key)
get_TI(dag_id, task_id, run_id) == <<dag_id, task_id, run_id>> \in TIKeys

set_state_outcome(req, fault, st) ==
    LET op == "post_set_task_instances_state"
        dag == get_dag(req.dag_id)
        task_id == req.task_id
        execution_date == req.execution_date
        run_id == req.dag_run_id
        by_date == IF execution_date # None THEN <<"TI">> ELSE <<>>
        by_run == IF run_id # None THEN <<"TI">> ELSE <<>>
        tis == set_task_instance_state_tis(
                   req.dag_id, Val(dag), task_id, run_id, execution_date,
                   set_state_upstream(req), req.include_downstream,
                   req.include_future, req.include_past)
        writes == set_task_instance_state_writes(
                      tis, req.new_state, set_state_commit(req.dry_run))
        failed == Fails(writes, fault) /\ set_state_commit(req.dry_run)
        after == Apply(st, Written(writes, fault))
    IN  IF dag = None
        THEN Outcome(NotFound(op, req), st, TRUE)
        ELSE IF task_id \notin Val(dag).task_ids
        THEN Outcome(NotFound(op, req), st, TRUE)
        ELSE IF /\ execution_date # None
                /\ all(ByExecutionDate(req.dag_id, task_id, Val(execution_date)),
                       st.ti) = <<>>
        THEN Outcome([NotFound(op, req) EXCEPT !.queries = by_date], st, TRUE)
        ELSE IF run_id # None /\ ~get_TI(req.dag_id, task_id, Val(run_id))
        THEN Outcome([NotFound(op, req) EXCEPT !.queries = by_date \o by_run],
                     st, TRUE)
        ELSE IF failed
        THEN Outcome([Response(op, req, 500) EXCEPT
                         !.queries = by_date \o by_run \o <<"DR", "TI">>,
                         !.written = Len(Written(writes, fault))],
                     after, TRUE)
        ELSE Outcome([Response(op, req, 200) EXCEPT
                         !.task_instances = Keys(tis),
                         !.queries = by_date \o by_run \o <<"DR", "TI">>,
                         !.written = Len(writes)],
                     after, FALSE)

post_set_task_instances_state(req, fault) ==
    provide_session(set_state_outcome(req, fault, [ti |-> ti_state, dr |-> dr_state]))

(***************************************************************************)
(* The requests of the two mutation endpoints.                             *)
(***************************************************************************)
ClearRequests ==
    {[dag_id |-> d, start_date |-> s, end_date |-> e, only_failed |-> f,
      only_running |-> r, dry_run |-> y, reset_dag_runs |-> g] :
        d \in {"W", "V"}, s \in OptDates(1..MaxDate), e \in OptDates(1..MaxDate),
        f \in BOOLEAN, r \in BOOLEAN, y \in BOOLEAN, g \in BOOLEAN}

Anchors ==
    {<<Some(r), None>> : r \in {"R1", "R2", "R9"}}
    \cup {<<None, Some(d)>> : d \in 1..(MaxDate + 1)}

\* whether the request names a known workflow, a task of it and an instance
Resolves(r) ==
    /\ r.dag_id \in DOMAIN dag_bag
    /\ r.task_id \in dag_bag[r.dag_id].task_ids
    /\ \E i \in DOMAIN JoinRows :
          /\ JoinRows[i].ti.dag_id = r.dag_id
          /\ JoinRows[i].ti.task_id = r.task_id
          /\ IF r.dag_run_id # None
             THEN JoinRows[i].ti.run_id = Val(r.dag_run_id)
             ELSE JoinRows[i].dr.execution_date = Val(r.execution_date)

\* a request that is rejected never reads its new state or its cascade flags:
\* the rejected requests are taken with one value of each
SetStateRequests ==
    {r \in
        {[dag_id |-> d, task_id |-> t, dag_run_id |-> a[1], execution_date |-> a[2],
          new_state |-> n, include_upstream |-> u, include_downstream |-> w,
          include_future |-> f, include_past |-> p, dry_run |-> y] :
            d \in {"W", "V"}, t \in {"A", "B", "C", "Z"}, a \in Anchors,
            n \in {"success", "failed"}, u \in BOOLEAN, w \in BOOLEAN,
            f \in BOOLEAN, p \in BOOLEAN, y \in BOOLEAN} :
        \/ Resolves(r)
        \/ /\ r.new_state = "success"
           /\ ~r.include_upstream /\ ~r.include_downstream
           /\ ~r.include_future /\ ~r.include_past}

\* the writes before which the storage layer may fail are 0..MaxFault
MaxFault == 6

Faults == {None} \cup {Some(k) : k \in 0..MaxFault}

(***************************************************************************)
(* The specifications.                                                     *)
(***************************************************************************)
Init ==
    /\ ti_state = [k \in TIKeys |->
                     CASE k = <<"W", "A", "R1">> -> "failed"
                       [] k = <<"W", "B", "R1">> -> "running"
                       [] k = <<"W", "A", "R2">> -> "success"
                       [] k = <<"W", "B", "R2">> -> StateNONE
                       [] OTHER -> "failed"]
    /\ dr_state = [k \in DRKeys |->
                     IF k = <<"W", "R2">> THEN "success" ELSE "running"]
    /\ sla_miss = {}
    /\ rtif = {}
    /\ resp = NoResponse

\* the storage layer does not fail
Next ==
    \/ /\ resp.op = "idle"
       /\ \E req \in ClearRequests : post_clear_task_instances(req, None)
    \/ /\ resp.op = "idle"
       /\ \E req \in SetStateRequests : post_set_task_instances_state(req, None)
    \/ respond

Spec == Init /\ [][Next]_vars

\* the storage layer may fail at any write
NextFault ==
    \/ /\ resp.op = "idle"
       /\ \E req \in ClearRequests, fault \in Faults :
             post_clear_task_instances(req, fault)
    \/ /\ resp.op = "idle"
       /\ \E req \in SetStateRequests, fault \in Faults :
             post_set_task_instances_state(req, fault)
    \/ respond

SpecFault == Init /\ [][NextFault]_vars

(***************************************************************************)
(* Properties.  In an action formula resp' is the response of the request  *)
(* the step served, and the unprimed columns are the store before it.      *)
(***************************************************************************)
Clear == "post_clear_task_instances"
SetState == "post_set_task_instances_state"
Reads == {"get_task_instances", "get_task_instances_batch"}

StatesUnchanged == ti_state' = ti_state /\ dr_state' = dr_state

\* the rows a clear request resolves to, on the store before the request
ClearResolved(req) == all(dag_clear(req.dag_id, req), ti_state)

\* what the same clear request returns as a dry run on the same store
DryRunClearReturns(req) ==
    clear_outcome([req EXCEPT !.dry_run = TRUE], None,
                  [ti |-> ti_state, dr |-> dr_state]).resp.task_instances

NoCascade(req) ==
    /\ ~req.include_upstream /\ ~req.include_downstream
    /\ ~req.include_future /\ ~req.include_past

\* the keys of the instances of the request's task in the run its anchor names
AnchorKeys(req) ==
    {k \in TIKeys :
        /\ k[1] = req.dag_id
        /\ k[2] = req.task_id
        /\ IF req.dag_run_id # None
           THEN k[3] = Val(req.dag_run_id)
           ELSE \E i \in DOMAIN DR_table :
                   /\ DR_table[i].dag_id = k[1]
                   /\ DR_table[i].run_id = k[3]
                   /\ DR_table[i].execution_date = Val(req.execution_date)}

TaskInGraph(req) ==
    /\ req.dag_id \in DOMAIN dag_bag
    /\ req.task_id \in dag_bag[req.dag_id].task_ids

\* C1: a clear or set-state request with dry_run=true leaves every task
\* instance's stored state and every run's stored state as they were, whatever
\* the resolved set is.
C1_DryRunChangesNothing ==
    [][(resp'.op \in {Clear, SetState} /\ resp'.req.dry_run) => StatesUnchanged]_vars

\* C1 witness: a dry-run clear has answered with a resolved set that is not
\* empty.
C1_Witness ==
    /\ resp.op = Clear
    /\ resp.status = 200
    /\ resp.req.dry_run
    /\ resp.task_instances # <<>>

\* C2: a committed clear returns the set of task-instance keys that the same
\* request returns as a dry run on the same store: the set resolved before the
\* states were reset.
C2_CommittedClearReturnsResolvedSet ==
    [][(resp'.op = Clear /\ resp'.status = 200 /\ ~resp'.req.dry_run)
        => Range(resp'.task_instances) = Range(DryRunClearReturns(resp'.req))]_vars

\* the query whose rows a read endpoint counted
ReadQuery(r) ==
    IF r.op = "get_task_instances" THEN ListBaseQuery(r.req) ELSE BatchBaseQuery(r.req)

\* the distinct task-instance keys, joined to their run, that satisfy the
\* composed predicate
MatchingKeys(query) ==
    {k \in TIKeys :
        \E i \in DOMAIN JoinRows :
            /\ TIKey(JoinRows[i].ti) = k
            /\ RowMatches(query, JoinRows[i], ti_state)}

\* C3: total_entries of the list and batch endpoints is the number of distinct
\* task-instance keys satisfying the composed predicate, whatever SlaMiss and
\* RTIF rows exist and whatever offset and limit are.
C3_TotalEntriesCountsKeys ==
    resp.op \in Reads => resp.total_entries = Cardinality(MatchingKeys(ReadQuery(resp)))

\* C3 witness: a page shorter than total_entries, holding an instance with a
\* SlaMiss row and without an RTIF row.
C3_Witness ==
    /\ resp.op = "get_task_instances"
    /\ resp.req.offset # None
    /\ resp.total_entries > Len(resp.task_instances)
    /\ \E i \in DOMAIN resp.task_instances :
          resp.task_instances[i].sla_miss /\ ~resp.task_instances[i].rendered_fields

HasEmptyArrayFilter(r) ==
    \/ r.req.state = Some(<<>>)
    \/ r.req.pool = Some(<<>>)
    \/ r.req.queue = Some(<<>>)
    \/ r.op = "get_task_instances_batch" /\ r.req.dag_ids = Some(<<>>)

AllArrayFiltersOmitted(r) ==
    /\ r.req.state = None /\ r.req.pool = None /\ r.req.queue = None
    /\ r.op = "get_task_instances_batch" => r.req.dag_ids = None

\* C4: an array filter given an explicit empty list yields no match (zero
\* total_entries and an empty result), and with the array filters omitted
\* total_entries is the count of the keys that pass the other filters.
C4_EmptyListMatchesNothing ==
    /\ (resp.op \in Reads /\ HasEmptyArrayFilter(resp))
          => (resp.total_entries = 0 /\ resp.task_instances = <<>>)
    /\ (resp.op \in Reads /\ AllArrayFiltersOmitted(resp))
          => resp.total_entries = Cardinality(MatchingKeys(ReadQuery(resp)))

\* C5: a clear or set-state request for a workflow id that is not in the catalog
\* ends in NotFound with no query issued and no state changed.
C5_UnknownDagNotFoundBeforeAnyQuery ==
    [][(resp'.op \in {Clear, SetState} /\ resp'.req.dag_id \notin DOMAIN dag_bag)
        => (resp'.status = 404 /\ resp'.queries = <<>> /\ StatesUnchanged)]_vars

\* C5 witness: a committing clear for V, which has rows but is not in the
\* catalog, was answered NotFound.
C5_Witness ==
    /\ resp.op = Clear
    /\ resp.req.dag_id = "V"
    /\ ~resp.req.dry_run
    /\ resp.status = 404

\* C6: a set-state request whose task is not in the workflow's graph, or whose
\* anchor names no instance of the task, ends in NotFound and changes no state,
\* also when it asks to commit.
C6_SetStateNotFoundChangesNothing ==
    [][(resp'.op = SetState
        /\ (~TaskInGraph(resp'.req) \/ AnchorKeys(resp'.req) = {}))
        => (resp'.status = 404 /\ StatesUnchanged)]_vars

\* C6 witness: a committing set-state for task C, which is in the graph and has
\* no instance in run R1, was answered NotFound.
C6_Witness ==
    /\ resp.op = SetState
    /\ resp.req.dag_id = "W"
    /\ resp.req.task_id = "C"
    /\ resp.req.dag_run_id = Some("R1")
    /\ ~resp.req.dry_run
    /\ resp.status = 404

\* C7: after a committed clear with reset_dag_runs has succeeded, every
\* resolved instance is unset and every run owning one is queued.
C7_ClearResetsInstancesAndRuns ==
    [][(resp'.op = Clear /\ resp'.status = 200
        /\ ~resp'.req.dry_run /\ resp'.req.reset_dag_runs)
        => \A i \in DOMAIN ClearResolved(resp'.req) :
              /\ ti_state'[TIKey(ClearResolved(resp'.req)[i].ti)] = StateNONE
              /\ dr_state'[DRKey(ClearResolved(resp'.req)[i].dr)] = DagRunStateQUEUED]_vars

\* C7 witness: a committed clear of W over both runs with reset_dag_runs has
\* succeeded; both runs are queued and the four instances unset.
C7_Witness ==
    /\ resp.op = Clear
    /\ resp.status = 200
    /\ resp.req.dag_id = "W"
    /\ resp.req.start_date = Some(1) /\ resp.req.end_date = Some(2)
    /\ ~resp.req.only_failed /\ ~resp.req.only_running
    /\ ~resp.req.dry_run /\ resp.req.reset_dag_runs
    /\ resp.written = 6
    /\ dr_state[<<"W", "R1">>] = DagRunStateQUEUED
    /\ dr_state[<<"W", "R2">>] = DagRunStateQUEUED
    /\ \A k \in TIKeys : k[1] = "W" => ti_state[k] = StateNONE

\* C8: a set-state request with no cascade flag resolves to the anchor instance
\* alone: the list returned holds its key only, and when committed that
\* instance takes the target state while every other instance and every run
\* keeps its state.
C8_NoCascadeIsTheAnchorAlone ==
    [][(resp'.op = SetState /\ resp'.status = 200 /\ NoCascade(resp'.req))
        => /\ Len(resp'.task_instances) = 1
           /\ Range(resp'.task_instances) = AnchorKeys(resp'.req)
           /\ dr_state' = dr_state
           /\ ti_state' = IF resp'.req.dry_run
                          THEN ti_state
                          ELSE [k \in TIKeys |->
                                  IF k \in AnchorKeys(resp'.req)
                                  THEN resp'.req.new_state ELSE ti_state[k]]]_vars

\* C8 witness: a committed set-state of B with no cascade flag, anchored by
\* logical date 1, has succeeded and B's instance in R1 is in the target state.
C8_Witness ==
    /\ resp.op = SetState
    /\ resp.status = 200
    /\ NoCascade(resp.req)
    /\ ~resp.req.dry_run
    /\ resp.req.task_id = "B"
    /\ resp.req.execution_date = Some(1)
    /\ resp.req.new_state = "success"
    /\ ti_state[<<"W", "B", "R1">>] = "success"
    /\ ti_state[<<"W", "A", "R1">>] = "failed"

\* the rows a set-state request resolves to
SetStateResolved(req) ==
    set_task_instance_state_tis(
        req.dag_id, dag_bag[req.dag_id], req.task_id, req.dag_run_id,
        req.execution_date, req.include_upstream, req.include_downstream,
        req.include_future, req.include_past)

\* every instance and run the request resolves to has been updated
AllUpdated(r) ==
    IF r.op = Clear
    THEN \A i \in DOMAIN ClearResolved(r.req) :
            /\ ti_state'[TIKey(ClearResolved(r.req)[i].ti)] = StateNONE
            /\ r.req.reset_dag_runs
                 => dr_state'[DRKey(ClearResolved(r.req)[i].dr)] = DagRunStateQUEUED
    ELSE \A i \in DOMAIN SetStateResolved(r.req) :
            ti_state'[TIKey(SetStateResolved(r.req)[i].ti)] = r.req.new_state

\* C9: a committing clear or set-state request, whether it succeeds or the
\* storage layer fails at any write, leaves either every resolved instance (and
\* for clear with reset_dag_runs every affected run) updated, or nothing
\* changed.
C9_MutationsAreAtomic ==
    [][(resp'.op \in {Clear, SetState} /\ resp'.status \in {200, 500}
        /\ ~resp'.req.dry_run)
        => /\ StatesUnchanged \/ AllUpdated(resp')
           /\ resp'.status = 500 => StatesUnchanged
           /\ resp'.status = 200 => AllUpdated(resp')]_vars

\* C9 witness: a committing clear of the four instances of W failed when two
\* of them had been written.
C9_Witness ==
    /\ resp.op = Clear
    /\ resp.status = 500
    /\ resp.req.dag_id = "W"
    /\ resp.req.start_date = None /\ resp.req.end_date = None
    /\ ~resp.req.only_failed /\ ~resp.req.only_running
    /\ resp.written = 2
    /\ ti_state[<<"W", "A", "R1">>] # StateNONE

\* C10: a committed clear without reset_dag_runs changes no run's state.
C10_ClearWithoutResetKeepsRuns ==
    [][(resp'.op = Clear /\ resp'.status = 200
        /\ ~resp'.req.dry_run /\ ~resp'.req.reset_dag_runs)
        => dr_state' = dr_state]_vars

\* C10 witness: a committed clear without reset_dag_runs has reset instances
\* of run R2 of W, and the run is still in the state it had.
C10_Witness ==
    /\ resp.op = Clear
    /\ resp.status = 200
    /\ ~resp.req.dry_run /\ ~resp.req.reset_dag_runs
    /\ resp.req.dag_id = "W"
    /\ resp.req.start_date = Some(2)
    /\ resp.written = 2
    /\ dr_state[<<"W", "R2">>] = "success"
    /\ ti_state[<<"W", "A", "R2">>] = StateNONE

====
